---- MODULE Spec2Model ----
(***************************************************************************)
(* The incremental collection tracker of the content-collection feature    *)
(* (createContentTypesGenerator): the pending event queue, the debounce    *)
(* timer, the processing passes (runEvents) with their suspension points,  *)
(* the Collection Map (collectionTypes), the Content-Config Observable     *)
(* and the manifest written by writeContentFiles.                          *)
(*                                                                         *)
(* JavaScript scheduling is modelled as run-to-completion: a pass whose pc *)
(* is "loop" is running synchronous code (or resuming through already      *)
(* resolved promises), and no timer, watcher callback or I/O completion    *)
(* runs until every pass is suspended in an I/O await or has ended.        *)
(***************************************************************************)
EXTENDS Integers, Sequences, FiniteSets, TLC

\* ---------------------------------------------------------------- bounds
\* number of queueEvent calls in one behaviour
MaxQueued == 2

\* ----------------------------------------------------------------- paths
\* A path is [inside, dirs, stem, ext]: whether it lies below the content
\* root, the directories from the content root down, and the file name
\* split into stem and extension (both "" for a directory, whose own name
\* is the last element of dirs).
Path(inside, dirs, stem, ext) ==
    [inside |-> inside, dirs |-> dirs, stem |-> stem, ext |-> ext]

ConfigFile == Path(TRUE, << >>, "config", ".ts")
PostA      == Path(TRUE, <<"blog">>, "a", ".md")
PostB      == Path(TRUE, <<"blog">>, "b", ".json")
RootPost   == Path(TRUE, << >>, "c", ".md")
TextFile   == Path(TRUE, <<"blog">>, "x", ".txt")
RootText   == Path(TRUE, << >>, "y", ".txt")
RootData   == Path(TRUE, << >>, "d", ".json")
BlogDir    == Path(TRUE, <<"blog">>, "", "")
SubDir     == Path(TRUE, <<"blog", "sub">>, "", "")
ContentDir == Path(FALSE, << >>, "", "")
Outside    == Path(FALSE, <<"pages">>, "index", ".md")

IsDir(p) == p.stem = "" /\ p.ext = ""

RawEvent(name, entry) == [name |-> name, entry |-> entry]

\* The raw events the watch service can deliver, one set per project
\* situation; the files named in a feed are the ones glob can find.
Feeds ==
    { {RawEvent("addDir", BlogDir), RawEvent("add", PostA), RawEvent("unlink", PostA)},
      {RawEvent("add", PostA), RawEvent("change", PostA), RawEvent("unlinkDir", BlogDir)},
      {RawEvent("add", PostA), RawEvent("unlink", PostA),
       RawEvent("add", PostB), RawEvent("change", PostB)},
      {RawEvent("addDir", SubDir), RawEvent("unlinkDir", SubDir),
       RawEvent("addDir", BlogDir), RawEvent("unlinkDir", BlogDir)},
      {RawEvent("change", ConfigFile), RawEvent("change", PostB)},
      {RawEvent("add", TextFile), RawEvent("unlink", TextFile), RawEvent("add", RootPost),
       RawEvent("change", RootText)},
      {RawEvent("add", Outside), RawEvent("addDir", ContentDir), RawEvent("change", RootPost),
       RawEvent("add", RootData)} }

FileEventNames == {"add", "change", "unlink"}
DirEventNames  == {"addDir", "unlinkDir"}

\* What frontmatter a content file can hold when it is read: no slug, the
\* slug "custom", or something parseFrontmatter/getEntrySlug rejects.
Frontmatters == {"none", "custom", "bad"}

\* What the config loader can produce: a config, nothing, or an exception.
\* A config maps each configured collection name to whether it has a schema.
Configs ==
    { [collections |-> [c \in {"blog", "docs"} |-> [schema |-> (c = "blog")]]] }
\* A project whose feed has no config event has no config file.
LoaderOutcomes(rawEvents) ==
    IF \E raw \in rawEvents : raw.entry = Path(TRUE, << >>, "config", ".ts")
    THEN {[kind |-> "config", config |-> c] : c \in Configs}
            \cup {[kind |-> "undefined"], [kind |-> "throws"]}
    ELSE {[kind |-> "undefined"]}

\* ------------------------------------------------------- string helpers
RECURSIVE Join(_)
Join(segs) ==
    IF segs = << >> THEN ""
    ELSE IF Len(segs) = 1 THEN segs[1]
    ELSE segs[1] \o "/" \o Join(Tail(segs))

JSONStringify(s) == "\"" \o s \o "\""

\* JSON.parse of a key made by JSONStringify.
KnownNames == {"", "blog", "blog/sub", "docs", "a.md", "b.json", "c.md"}
JSONParse(k) == CHOOSE s \in KnownNames : JSONStringify(s) = k

\* The strings that occur as keys, in the order Array.prototype.sort()
\* gives them (UTF-16 code unit order).
LexOrder ==
    << "\"\"", "\"a.md\"", "\"b.json\"", "\"blog\"", "\"blog/sub\"", "\"c.md\"",
       "\"docs\"" >>

Sort(S) == SelectSeq(LexOrder, LAMBDA k : k \in S)

\* path.relative(contentDir, entry).split('/'): the segments below the
\* content root; the empty string splits into one empty segment.
Segments(p) == IF IsDir(p) THEN p.dirs ELSE Append(p.dirs, p.stem \o p.ext)
RelativeSplit(p) == IF Segments(p) = << >> THEN << "" >> ELSE Segments(p)
RelativePath(p) == Join(Segments(p))

\* ------------------------------------------- classification (utils.js)
ContentExts == {".md"}
DataExts    == {".json"}

\* getEntryType: ignored outside the content root, config for the reserved
\* config file, otherwise by extension.
GetEntryType(p) ==
    IF ~p.inside THEN "ignored"
    ELSE IF p = ConfigFile THEN "config"
    ELSE IF p.ext \in ContentExts THEN "content"
    ELSE IF p.ext \in DataExts THEN "data"
    ELSE "unsupported"

\* getEntryCollectionName: the first directory below the content root, as a
\* one-element sequence; the empty sequence stands for undefined (the file
\* sits directly under the content root).
GetEntryCollectionName(p) ==
    IF Len(RelativeSplit(p)) < 2 THEN << >> ELSE << RelativeSplit(p)[1] >>

\* The segments of p below the directory of `collection` ('' is the content
\* root itself).
BelowCollection(p, collection) ==
    IF collection = "" THEN p.dirs ELSE Tail(p.dirs)

\* getContentEntryIdAndSlug: the id is the path relative to the collection
\* directory, the derived slug is the id without its extension.
GetContentEntryIdAndSlug(p, collection) ==
    [ id   |-> Join(Append(BelowCollection(p, collection), p.stem \o p.ext)),
      slug |-> Join(Append(BelowCollection(p, collection), p.stem)) ]

\* getDataEntryId: the path relative to the collection directory.
GetDataEntryId(p, collection) ==
    Join(Append(BelowCollection(p, collection), p.stem \o p.ext))

\* getEntrySlug: the frontmatter slug when there is one, else the derived
\* one ("bad" frontmatter makes parseSlug throw before this is reached).
GetEntrySlug(derived, frontmatter) ==
    IF frontmatter = "none" THEN derived ELSE frontmatter

\* -------------------------------------------------------- Collection Map
\* collectionTypes is a function from collection keys to functions from
\* entry keys to metadata; << >> is the empty object.
EmptyObject == << >>

ContentMeta(slug) == [type |-> "content", slug |-> slug]
DataMeta == [type |-> "data"]

AddCollection(contentMap, collectionKey) ==
    [k \in DOMAIN contentMap \cup {collectionKey} |->
        IF k = collectionKey THEN EmptyObject ELSE contentMap[k]]

RemoveCollection(contentMap, collectionKey) ==
    [k \in DOMAIN contentMap \ {collectionKey} |-> contentMap[k]]

SetEntry(contentTypes, collectionKey, entryKey, metadata) ==
    [contentTypes EXCEPT ![collectionKey] =
        [e \in DOMAIN contentTypes[collectionKey] \cup {entryKey} |->
            IF e = entryKey THEN metadata ELSE contentTypes[collectionKey][e]]]

\* removeEntry deleting the collection instead of the entry.
RemoveEntryDropsCollection(contentTypes, collectionKey, entryKey) ==
    [k \in DOMAIN contentTypes \ {collectionKey} |-> contentTypes[k]]

RemoveEntry(contentTypes, collectionKey, entryKey) ==
    [contentTypes EXCEPT ![collectionKey] =
        [e \in DOMAIN contentTypes[collectionKey] \ {entryKey} |->
            contentTypes[collectionKey][e]]]

HasEntry(contentTypes, collectionKey, entryKey) ==
    /\ collectionKey \in DOMAIN contentTypes
    /\ entryKey \in DOMAIN contentTypes[collectionKey]

\* ------------------------------------------------------------ handleEvent
\* A response is { shouldGenerateTypes, error? }: error is << >> when there
\* is none and << id >> for an UnsupportedFileTypeError(id).
Response(shouldGenerateTypes) ==
    [shouldGenerateTypes |-> shouldGenerateTypes, error |-> << >>]

Outcome(types, response) == [types |-> types, response |-> response]

\* Directory events without the depth test: every directory is taken for a
\* collection.
HandleDirEventAnyDepth(types, event) ==
    LET collection == RelativePath(event.entry)
    IN  IF event.name = "addDir"
        THEN Outcome(AddCollection(types, JSONStringify(collection)), Response(TRUE))
        ELSE Outcome(RemoveCollection(types, JSONStringify(collection)), Response(TRUE))

\* Directory events: only a first-level directory is a collection.
HandleDirEvent(types, event) ==
    LET collection == RelativePath(event.entry)
        isCollectionEvent == Len(RelativeSplit(event.entry)) = 1
    IN  IF ~isCollectionEvent THEN Outcome(types, Response(FALSE))
        ELSE IF event.name = "addDir"
        THEN Outcome(AddCollection(types, JSONStringify(collection)), Response(TRUE))
        ELSE Outcome(RemoveCollection(types, JSONStringify(collection)), Response(TRUE))

\* Unsupported files reported also when deleted.
HandleUnsupportedWarnsUnlink(types, event) ==
    Outcome(types,
       [shouldGenerateTypes |-> FALSE,
        error |-> << GetContentEntryIdAndSlug(event.entry, "").id >>])

\* Unsupported files: reported, except when deleted.
HandleUnsupported(types, event) ==
    IF event.name = "unlink" THEN Outcome(types, Response(FALSE))
    ELSE Outcome(types,
            [shouldGenerateTypes |-> FALSE,
             error |-> << GetContentEntryIdAndSlug(event.entry, "").id >>])

\* Data entries, with a change that asks for regeneration as add does.
HandleDataEventChangeRegenerates(types, event, collection) ==
    LET id == GetDataEntryId(event.entry, collection)
        collectionKey == JSONStringify(collection)
        entryKey == JSONStringify(id)
        withCollection ==
            IF collectionKey \in DOMAIN types THEN types
            ELSE AddCollection(types, collectionKey)
    IN  CASE event.name = "add" ->
                Outcome(IF entryKey \in DOMAIN withCollection[collectionKey]
                        THEN withCollection
                        ELSE SetEntry(withCollection, collectionKey, entryKey, DataMeta),
                        Response(TRUE))
          [] event.name = "unlink" ->
                Outcome(IF HasEntry(types, collectionKey, entryKey)
                        THEN RemoveEntry(types, collectionKey, entryKey)
                        ELSE types,
                        Response(TRUE))
          [] OTHER -> Outcome(types, Response(TRUE))

\* Data entries, with an unlink that forgets to remove the entry.
HandleDataEventKeepsEntry(types, event, collection) ==
    LET id == GetDataEntryId(event.entry, collection)
        collectionKey == JSONStringify(collection)
        entryKey == JSONStringify(id)
        withCollection ==
            IF collectionKey \in DOMAIN types THEN types
            ELSE AddCollection(types, collectionKey)
    IN  CASE event.name = "add" ->
                Outcome(IF entryKey \in DOMAIN withCollection[collectionKey]
                        THEN withCollection
                        ELSE SetEntry(withCollection, collectionKey, entryKey, DataMeta),
                        Response(TRUE))
          [] event.name = "unlink" -> Outcome(types, Response(TRUE))
          [] OTHER -> Outcome(types, Response(FALSE))

\* Data entries, with a change that tracks the entry as add does.
HandleDataEventChangeAdds(types, event, collection) ==
    LET id == GetDataEntryId(event.entry, collection)
        collectionKey == JSONStringify(collection)
        entryKey == JSONStringify(id)
        withCollection ==
            IF collectionKey \in DOMAIN types THEN types
            ELSE AddCollection(types, collectionKey)
    IN  CASE event.name = "unlink" ->
                Outcome(IF HasEntry(types, collectionKey, entryKey)
                        THEN RemoveEntry(types, collectionKey, entryKey)
                        ELSE types,
                        Response(TRUE))
          [] OTHER ->
                Outcome(IF entryKey \in DOMAIN withCollection[collectionKey]
                        THEN withCollection
                        ELSE SetEntry(withCollection, collectionKey, entryKey, DataMeta),
                        Response(event.name = "add"))

\* Data entries.
HandleDataEvent(types, event, collection) ==
    LET id == GetDataEntryId(event.entry, collection)
        collectionKey == JSONStringify(collection)
        entryKey == JSONStringify(id)
        withCollection ==
            IF collectionKey \in DOMAIN types THEN types
            ELSE AddCollection(types, collectionKey)
    IN  CASE event.name = "add" ->
                Outcome(IF entryKey \in DOMAIN withCollection[collectionKey]
                        THEN withCollection
                        ELSE SetEntry(withCollection, collectionKey, entryKey, DataMeta),
                        Response(TRUE))
          [] event.name = "unlink" ->
                Outcome(IF HasEntry(types, collectionKey, entryKey)
                        THEN RemoveEntry(types, collectionKey, entryKey)
                        ELSE types,
                        Response(TRUE))
          [] OTHER -> Outcome(types, Response(FALSE))

\* Content entries; `parsed` is the slug parseSlug resolved to (read only
\* by add and change, which await it before they touch the map).
HandleContentEvent(types, event, collection, parsed) ==
    LET id == GetContentEntryIdAndSlug(event.entry, collection).id
        collectionKey == JSONStringify(collection)
        entryKey == JSONStringify(id)
        withCollection ==
            IF collectionKey \in DOMAIN types THEN types
            ELSE AddCollection(types, collectionKey)
    IN  CASE event.name = "add" ->
                Outcome(IF entryKey \in DOMAIN withCollection[collectionKey]
                        THEN withCollection
                        ELSE SetEntry(withCollection, collectionKey, entryKey,
                                      ContentMeta(parsed)),
                        Response(TRUE))
          [] event.name = "unlink" ->
                Outcome(IF HasEntry(types, collectionKey, entryKey)
                        THEN RemoveEntry(types, collectionKey, entryKey)
                        ELSE types,
                        Response(TRUE))
          [] OTHER ->
                IF /\ HasEntry(types, collectionKey, entryKey)
                   /\ types[collectionKey][entryKey].type = "content"
                   /\ types[collectionKey][entryKey].slug # parsed
                THEN Outcome(SetEntry(types, collectionKey, entryKey, ContentMeta(parsed)),
                             Response(TRUE))
                ELSE Outcome(types, Response(FALSE))

\* handleEvent taking every file directly below the content root for the
\* config file.
SuspensionRootIsConfig(event) ==
    IF event.name \in DirEventNames THEN "sync"
    ELSE IF GetEntryCollectionName(event.entry) = << >> THEN "config"
    ELSE IF /\ GetEntryType(event.entry) = "content"
            /\ event.name \in {"add", "change"} THEN "slug"
    ELSE "sync"

\* The warning handleEvent logs for an entry file outside every collection
\* directory: << path >>, or << >> when it logs none.
NestingWarning(event) ==
    IF /\ event.name \in FileEventNames
       /\ GetEntryType(event.entry) \in {"content", "data"}
       /\ GetEntryCollectionName(event.entry) = << >>
       /\ event.logLevel \in {"info", "warn"}
    THEN << RelativePath(event.entry) >>
    ELSE << >>

\* Where handleEvent suspends for an event: "config" awaits the config
\* loader, "slug" awaits parseSlug, "sync" returns without I/O.
Suspension(event) ==
    IF event.name \in DirEventNames THEN "sync"
    ELSE IF GetEntryType(event.entry) = "config" THEN "config"
    ELSE IF /\ GetEntryType(event.entry) = "content"
            /\ GetEntryCollectionName(event.entry) # << >>
            /\ event.name \in {"add", "change"} THEN "slug"
    ELSE "sync"

\* handleEvent without the test for an undefined collection: a file directly
\* below the content root is tracked under the key of the root.
HandleEventTracksRootFiles(types, event, parsed) ==
    IF event.name \in DirEventNames THEN HandleDirEvent(types, event)
    ELSE LET fileType == GetEntryType(event.entry)
             collection == IF GetEntryCollectionName(event.entry) = << >>
                           THEN << "" >> ELSE GetEntryCollectionName(event.entry)
         IN  IF fileType = "ignored" THEN Outcome(types, Response(FALSE))
             ELSE IF fileType = "config" THEN Outcome(types, Response(TRUE))
             ELSE IF fileType = "unsupported" THEN HandleUnsupported(types, event)
             ELSE IF fileType = "data"
                  THEN HandleDataEvent(types, event, collection[1])
             ELSE HandleContentEvent(types, event, collection[1], parsed)

\* handleEvent once its await (if any) has resolved: `parsed` is the slug
\* from parseSlug and is read by content add/change only.
HandleEvent(types, event, parsed) ==
    IF event.name \in DirEventNames THEN HandleDirEvent(types, event)
    ELSE LET fileType == GetEntryType(event.entry)
             collection == GetEntryCollectionName(event.entry)
         IN  IF fileType = "ignored" THEN Outcome(types, Response(FALSE))
             ELSE IF fileType = "config" THEN Outcome(types, Response(TRUE))
             ELSE IF fileType = "unsupported" THEN HandleUnsupported(types, event)
             ELSE IF collection = << >> THEN Outcome(types, Response(FALSE))
             ELSE IF fileType = "data"
                  THEN HandleDataEvent(types, event, collection[1])
             ELSE HandleContentEvent(types, event, collection[1], parsed)

\* ------------------------------------------------------ writeContentFiles
\* The entry map and the config type writeContentFiles puts in the
\* manifest: collections in sorted key order, entries in sorted key order.
EntryType(contentTypes, contentConfig, collectionKey, entryKey) ==
    LET name == JSONParse(collectionKey)
        hasSchema ==
            /\ contentConfig # << >>
            /\ name \in DOMAIN contentConfig[1].collections
            /\ contentConfig[1].collections[name].schema
    IN  [ key |-> entryKey,
          metadata |-> contentTypes[collectionKey][entryKey],
          collection |-> collectionKey,
          data |-> IF hasSchema THEN "InferEntrySchema" ELSE "any" ]

CollectionType(contentTypes, contentConfig, collectionKey) ==
    LET entryKeys == Sort(DOMAIN contentTypes[collectionKey])
    IN  [ key |-> collectionKey,
          entries |-> [i \in 1..Len(entryKeys) |->
                          EntryType(contentTypes, contentConfig,
                                    collectionKey, entryKeys[i])] ]

\* contentConfig is << >> for undefined and << config >> otherwise.
WriteContentFiles(contentTypes, contentConfig) ==
    LET collectionKeys == Sort(DOMAIN contentTypes)
    IN  [ entryMap |-> [i \in 1..Len(collectionKeys) |->
                           CollectionType(contentTypes, contentConfig,
                                          collectionKeys[i])],
          configType |-> IF contentConfig # << >> THEN "typeof import" ELSE "never" ]

\* ------------------------------------------------------------------ state
VARIABLES
    feed,                   \* the raw events the watch service can deliver
    collectionTypes,        \* the Collection Map
    contentConfigObserver,  \* the Content-Config Observable
    events,                 \* the array the variable `events` refers to
    debounceTimeout,        \* handle of the last timer set (0: undefined)
    timers,                 \* the timers set and neither fired nor cleared
    passes,                 \* the runEvents calls in progress, oldest first
    initState,              \* where init() is
    manifestFile,           \* the manifest on disk (<< >>: not written)
    nQueued,                \* queueEvent calls so far (also numbers the timers)
    lastLoad,               \* history: what the config loader did last
    owed,                   \* history: bursts of queueEvent calls so far
                            \* minus passes started by a timer so far
    lastEnded,              \* history: the pass that ended last
    warned,                 \* the unsupported-file warning logged last
    nestingWarned,          \* the 'must be nested' warning logged last
    objects,                \* writer study: two Collection Maps as JavaScript
                            \* objects, their keys in insertion order
    written,                \* writer study: what was last written for each
    writerConfig,           \* writer study: the config handed to the writer
    ssrPluginContext,       \* build:post: the module graph of the server build
    internals,              \* build:post: the page data by page module id
    outputs,                \* build:post: the server output, flattened
    clientOutputs,          \* build:post: the client outputs
    settings,               \* build:post: config.build.assetsPrefix and config.base
    post,                   \* build:post: where the hook is in its loops
    entryCSS,               \* build:post: the style accumulator of the chunk
    entryScripts,           \* build:post: the script accumulator of the chunk
    mutated                 \* build:post: the code handed to mutate, by chunk

trackerVars ==
    << feed, collectionTypes, contentConfigObserver, events, debounceTimeout,
       timers, passes, initState, manifestFile, nQueued, lastLoad, owed,
       lastEnded, warned, nestingWarned >>

writerVars == << objects, written, writerConfig >>

buildInputs == << ssrPluginContext, internals, outputs, clientOutputs, settings >>

buildVars == << buildInputs, post, entryCSS, entryScripts, mutated >>

vars == << trackerVars, writerVars, buildVars >>

Event(name, entry, logLevel) ==
    [name |-> name, entry |-> entry, logLevel |-> logLevel]

\* The log levels queueEvent is called with (undefined reads as 'info').
QueueOpts == {"info"}

\* The array pass p iterates: the one `events` still refers to, or the one
\* it referred to when some pass reassigned `events`.
Arr(p) == IF passes[p].live THEN events ELSE passes[p].arr

\* No pass is inside synchronous code: timers, watcher callbacks and I/O
\* completions can run.
Idle == \A p \in DOMAIN passes : passes[p].pc # "loop"

\* How many of the events queued when the pass started it never called
\* handleEvent for, when it leaves its loop after `reached` events.
Skipped(pass, reached) ==
    IF pass.lenAtStart > reached THEN pass.lenAtStart - reached ELSE 0

\* The 'is not a collection' warnings of a pass: how many were logged for
\* each configured collection name (<< >>: the cross-check did not run).
NoWarnings == << >>

\* What is kept of a pass that has ended: how it ended, how many events of
\* its batch it skipped, whether a changed slug was seen, whether it wrote
\* and what it warned about.
Ended(pass, pc, reached, wrote, warnings) ==
    [ kind |-> pass.kind, pc |-> pc, solo |-> pass.solo,
      skipped |-> Skipped(pass, reached), elevated |-> pass.elevated,
      wrote |-> wrote, warnings |-> warnings ]

NoPass ==
    [ kind |-> "none", pc |-> "none", solo |-> FALSE, skipped |-> 0,
      elevated |-> FALSE, wrote |-> FALSE, warnings |-> NoWarnings ]

NewPass(kind, logLevel, len, solo) ==
    [ kind |-> kind, pc |-> "loop", idx |-> 0, live |-> TRUE, arr |-> << >>,
      responses |-> << >>, logLevel |-> logLevel, lenAtStart |-> len,
      solo |-> solo, content |-> << >>, observable |-> << >>,
      elevated |-> FALSE, frontmatter |-> "" ]

Remove(seq, p) ==
    [i \in 1..(Len(seq) - 1) |-> IF i < p THEN seq[i] ELSE seq[i + 1]]

\* The tracker as createContentTypesGenerator returns it.
TrackerInit ==
    /\ collectionTypes = EmptyObject
    /\ contentConfigObserver = [status |-> "unloaded"]
    /\ events = << >>
    /\ debounceTimeout = 0
    /\ timers = {}
    /\ passes = << >>
    /\ initState = "none"
    /\ manifestFile = << >>
    /\ nQueued = 0
    /\ lastLoad = [kind |-> "none"]
    /\ owed = 0
    /\ lastEnded = NoPass
    /\ warned = << >>
    /\ nestingWarned = << >>

Sides == {"first", "second"}

\* Both objects empty, nothing written.
WriterInit ==
    /\ objects = [side \in Sides |-> << >>]
    /\ written = [side \in Sides |-> << >>]
    /\ writerConfig = << >>

\* build:post not called: nothing to process.
BuildIdle ==
    /\ ssrPluginContext = [edges |-> {}, pages |-> {}]
    /\ internals = << >>
    /\ outputs = << >>
    /\ clientOutputs = << >>
    /\ settings = [assetsPrefix |-> "", base |-> "/"]
    /\ post = [pc |-> "idle", chunk |-> 0, id |-> 0, stack |-> << >>, seen |-> {},
               start |-> "", yielded |-> << >>]
    /\ entryCSS = << >>
    /\ entryScripts = << >>
    /\ mutated = << >>

Init ==
    /\ feed \in Feeds
    /\ TrackerInit
    /\ WriterInit
    /\ BuildIdle

\* ------------------------------------------------------------------- init
\* init() pushing the config event before it tests for the content root.
InitCallPushesFirst ==
    /\ initState = "none"
    /\ nQueued = 0
    /\ \E exists \in BOOLEAN :
          IF ~exists
          THEN /\ initState' = "no-content-dir"
               /\ events' = Append(events, Event("add", ConfigFile, "warn"))
          ELSE /\ initState' = "glob"
               /\ events' = Append(events, Event("add", ConfigFile, "warn"))
    /\ UNCHANGED << writerVars, buildVars, feed, warned, nestingWarned, lastLoad, collectionTypes, contentConfigObserver, debounceTimeout,
                    timers, passes, manifestFile, nQueued, owed, lastEnded >>

\* init() up to its await of glob: a missing content root ends it, else
\* the config event is pushed.  init() is the first call made on the
\* tracker: the watcher is attached once it has returned.
InitCall ==
    /\ initState = "none"
    /\ nQueued = 0
    /\ \E exists \in BOOLEAN :
          IF ~exists
          THEN /\ initState' = "no-content-dir"
               /\ UNCHANGED events
          ELSE /\ initState' = "glob"
               /\ events' = Append(events, Event("add", ConfigFile, "warn"))
    /\ UNCHANGED << writerVars, buildVars, feed, warned, nestingWarned, lastLoad, collectionTypes, contentConfigObserver, debounceTimeout,
                    timers, passes, manifestFile, nQueued, owed, lastEnded >>

\* The files glob('**') can list: those of the feed below the content
\* root, the config file filtered out.
GlobCandidates ==
    {p \in {raw.entry : raw \in feed} : p.inside /\ ~IsDir(p) /\ p # ConfigFile}

Orderings(S) ==
    {s \in [1..Cardinality(S) -> S] : \A i, j \in 1..Cardinality(S) : s[i] = s[j] => i = j}

\* glob resolves: one add event per file found, then runEvents() starts.
GlobDone ==
    /\ initState = "glob"
    /\ Idle
    /\ \E found \in SUBSET GlobCandidates : \E order \in Orderings(found) :
          LET added == [i \in 1..Len(order) |-> Event("add", order[i], "warn")]
          IN  /\ events' = events \o added
              /\ passes' = Append(passes,
                                  NewPass("init", "info", Len(events) + Len(added), FALSE))
    /\ initState' = "running"
    /\ UNCHANGED << writerVars, buildVars, feed, warned, nestingWarned, lastLoad, collectionTypes, contentConfigObserver, debounceTimeout,
                    timers, manifestFile, nQueued, owed, lastEnded >>

\* ------------------------------------------------------------- queueEvent
\* clearTimeout(debounceTimeout) followed by setTimeout(runEventsSafe, 50).
Reschedule(pending, handle, newTimer) ==
    {t \in pending : t.id # handle} \cup {newTimer}

QueueEvent ==
    /\ nQueued < MaxQueued
    /\ initState \in {"none", "generated"}
    /\ Idle
    /\ nQueued' = nQueued + 1
    /\ \E rawEvent \in feed : \E opts \in QueueOpts :
          IF ~rawEvent.entry.inside
          THEN UNCHANGED << events, timers, debounceTimeout, owed >>
          ELSE /\ events' = Append(events, Event(rawEvent.name, rawEvent.entry, opts))
               /\ timers' = Reschedule(timers, debounceTimeout,
                                       [id |-> nQueued + 1, logLevel |-> opts])
               /\ debounceTimeout' = nQueued + 1
               /\ owed' = IF timers = {} THEN owed + 1 ELSE owed
    /\ UNCHANGED << writerVars, buildVars, feed, warned, nestingWarned, lastLoad, collectionTypes, contentConfigObserver, passes,
                    initState, manifestFile, lastEnded >>

\* A debounce timer fires: runEventsSafe calls runEvents(opts).
TimerFire ==
    /\ Idle
    /\ \E t \in timers :
          /\ timers' = timers \ {t}
          /\ passes' = Append(passes,
                NewPass("timer", t.logLevel, Len(events), passes = << >>))
    /\ owed' = owed - 1
    /\ UNCHANGED << writerVars, buildVars, feed, warned, nestingWarned, lastLoad, collectionTypes, contentConfigObserver, events,
                    debounceTimeout, initState, manifestFile, nQueued, lastEnded >>

\* -------------------------------------------------------------- runEvents
CurrentEvent(p) == Arr(p)[passes[p].idx + 1]

InLoop(p) ==
    /\ p \in DOMAIN passes
    /\ passes[p].pc = "loop"
    /\ passes[p].idx < Len(Arr(p))

\* The pass records the response of the event it was handling; frontmatter
\* is what parseSlug read for that event ("": it was not called), kept
\* until handleEvent is called for the next event.
Responded(pass, response, frontmatter) ==
    [pass EXCEPT !.pc = "loop", !.idx = @ + 1, !.responses = Append(@, response),
                 !.frontmatter = frontmatter]

\* runEventsSafe without its try/catch: the exception leaves the timer
\* callback as it leaves init.
ThrownUncaught(pass) ==
    Ended(pass, "thrown", pass.idx + 1, FALSE, NoWarnings)

\* An exception leaves runEvents: runEventsSafe swallows it, init does not.
Thrown(pass) ==
    Ended(pass, IF pass.kind = "timer" THEN "caught" ELSE "thrown",
          pass.idx + 1, FALSE, NoWarnings)

\* handleEvent for an event that needs no I/O.
HandleSyncEvent(p) ==
    /\ InLoop(p)
    /\ Suspension(CurrentEvent(p)) = "sync"
    /\ LET out == HandleEvent(collectionTypes, CurrentEvent(p), "")
       IN  /\ collectionTypes' = out.types
           /\ passes' = [passes EXCEPT ![p] = Responded(@, out.response, "")]
    /\ nestingWarned' = IF NestingWarning(CurrentEvent(p)) # << >>
                         THEN NestingWarning(CurrentEvent(p)) ELSE nestingWarned
    /\ UNCHANGED << writerVars, buildVars, feed, warned, lastLoad, contentConfigObserver, events, debounceTimeout, timers,
                    initState, manifestFile, nQueued, owed, lastEnded >>

\* handleEvent for a config event, up to its await of loadContentConfig.
StartConfigLoad(p) ==
    /\ InLoop(p)
    /\ Suspension(CurrentEvent(p)) = "config"
    /\ contentConfigObserver' = [status |-> "loading"]
    /\ lastLoad' = [kind |-> "pending"]
    /\ passes' = [passes EXCEPT ![p].pc = "config", ![p].frontmatter = ""]
    /\ UNCHANGED << writerVars, buildVars, feed, warned, nestingWarned, collectionTypes, events, debounceTimeout, timers,
                    initState, manifestFile, nQueued, owed, lastEnded >>

\* The catch branch without its contentConfigObserver.set: a loader that
\* throws leaves the observable as the handler set it before the call.
ObservedCatchForgets(outcome) ==
    IF outcome.kind = "throws" THEN [status |-> "loading"]
    ELSE IF outcome.kind = "undefined" THEN [status |-> "does-not-exist"]
    ELSE [status |-> "loaded", config |-> outcome.config]

\* What the observable is set to for a loader outcome.
Observed(outcome) ==
    IF outcome.kind = "throws" THEN [status |-> "error", error |-> "cause"]
    ELSE IF outcome.kind = "undefined" THEN [status |-> "does-not-exist"]
    ELSE [status |-> "loaded", config |-> outcome.config]

\* handleEvent without its try/catch around loadContentConfig: a loader
\* that throws ends the pass.
ConfigLoadedRethrows(p) ==
    /\ Idle
    /\ p \in DOMAIN passes
    /\ passes[p].pc = "config"
    /\ \E outcome \in LoaderOutcomes(feed) :
          /\ lastLoad' = outcome
          /\ IF outcome.kind = "throws"
             THEN /\ passes' = Remove(passes, p)
                  /\ lastEnded' = Thrown(passes[p])
                  /\ initState' = IF passes[p].kind = "init" THEN "threw" ELSE initState
                  /\ UNCHANGED contentConfigObserver
             ELSE /\ contentConfigObserver' = Observed(outcome)
                  /\ passes' = [passes EXCEPT ![p] = Responded(@, Response(TRUE), "")]
                  /\ UNCHANGED << lastEnded, initState >>
    /\ UNCHANGED << writerVars, buildVars, feed, warned, nestingWarned, collectionTypes, events, debounceTimeout, timers,
                    manifestFile, nQueued, owed >>

\* loadContentConfig settles; handleEvent returns.
ConfigLoaded(p) ==
    /\ Idle
    /\ p \in DOMAIN passes
    /\ passes[p].pc = "config"
    /\ \E outcome \in LoaderOutcomes(feed) :
          /\ contentConfigObserver' = Observed(outcome)
          /\ lastLoad' = outcome
    /\ passes' = [passes EXCEPT ![p] = Responded(@, Response(TRUE), "")]
    /\ UNCHANGED << writerVars, buildVars, feed, warned, nestingWarned, collectionTypes, events, debounceTimeout, timers,
                    initState, manifestFile, nQueued, owed, lastEnded >>

\* handleEvent for a content add or change, up to its await in parseSlug.
StartParseSlug(p) ==
    /\ InLoop(p)
    /\ Suspension(CurrentEvent(p)) = "slug"
    /\ passes' = [passes EXCEPT ![p].pc = "slug", ![p].frontmatter = ""]
    /\ UNCHANGED << writerVars, buildVars, feed, warned, nestingWarned, lastLoad, collectionTypes, contentConfigObserver, events,
                    debounceTimeout, timers, initState, manifestFile, nQueued,
                    owed, lastEnded >>

\* parseSlug without the frontmatter slug handed to getEntrySlug: the
\* slug derived from the id is returned whatever the file says.
ParseSlugIgnoresFrontmatter(event, frontmatter) ==
    LET collection == GetEntryCollectionName(event.entry)[1]
    IN  GetContentEntryIdAndSlug(event.entry, collection).slug

\* parseSlug: the slug of the entry for the frontmatter read.
ParseSlug(event, frontmatter) ==
    LET collection == GetEntryCollectionName(event.entry)[1]
    IN  GetEntrySlug(GetContentEntryIdAndSlug(event.entry, collection).slug,
                     frontmatter)

\* parseSlug resolves; handleEvent goes on and returns.
SlugParsed(p) ==
    /\ Idle
    /\ p \in DOMAIN passes
    /\ passes[p].pc = "slug"
    /\ \E frontmatter \in Frontmatters \ {"bad"} :
          LET parsed == ParseSlug(CurrentEvent(p), frontmatter)
              out == HandleEvent(collectionTypes, CurrentEvent(p), parsed)
          IN  /\ collectionTypes' = out.types
              /\ passes' = [passes EXCEPT ![p] =
                    [Responded(@, out.response, frontmatter) EXCEPT
                        !.elevated = @ \/ (/\ CurrentEvent(p).name = "change"
                                           /\ out.types # collectionTypes)]]
    /\ UNCHANGED << writerVars, buildVars, feed, warned, nestingWarned, lastLoad, contentConfigObserver, events, debounceTimeout, timers,
                    initState, manifestFile, nQueued, owed, lastEnded >>

\* parseSlug rejects (unreadable file, invalid frontmatter or slug): the
\* exception leaves handleEvent and runEvents.
SlugParseFails(p) ==
    /\ Idle
    /\ p \in DOMAIN passes
    /\ passes[p].pc = "slug"
    /\ passes' = Remove(passes, p)
    /\ lastEnded' = Thrown(passes[p])
    /\ initState' = IF Thrown(passes[p]).pc = "thrown" THEN "threw" ELSE initState
    /\ UNCHANGED << writerVars, buildVars, feed, warned, nestingWarned, lastLoad, collectionTypes, contentConfigObserver, events,
                    debounceTimeout, timers, manifestFile, nQueued, owed >>

\* The config handed to writeContentFiles: the loaded one or undefined.
LoadedConfig(observable) ==
    IF observable.status = "loaded" THEN << observable.config >> ELSE << >>

\* The ids of the responses that carry an UnsupportedFileTypeError, in the
\* order of the responses.
UnsupportedFiles(responses) ==
    LET withError == SelectSeq(responses, LAMBDA response : response.error # << >>)
    IN  [i \in 1..Len(withError) |-> withError[i].error[1]]

ShouldGenerate(responses) ==
    \E i \in DOMAIN responses : responses[i].shouldGenerateTypes

\* `events = []`: the passes still iterating the old array keep it.
Detach(all, old) ==
    [q \in DOMAIN all |->
        IF all[q].live THEN [all[q] EXCEPT !.live = FALSE, !.arr = old] ELSE all[q]]

\* A pass suspended in writeContentFiles, about to write `content`, with
\* the observable state it read before the call.
Writing(pass, content, observable) ==
    [pass EXCEPT !.pc = "write", !.live = FALSE, !.arr = << >>,
                 !.responses = << >>, !.content = << content >>,
                 !.observable = << observable >>, !.frontmatter = ""]

\* warnNonexistentCollections looking the configured name up without
\* JSON.stringify: no key of the map matches.
WarnNonexistentCollectionsRawKey(contentConfig, contentTypes) ==
    [c \in DOMAIN contentConfig.collections |->
        IF c \in DOMAIN contentTypes THEN 0 ELSE 1]

\* warnNonexistentCollections: one warning for each configured collection
\* whose key the map lacks.
WarnNonexistentCollections(contentConfig, contentTypes) ==
    [c \in DOMAIN contentConfig.collections |->
        IF JSONStringify(c) \in DOMAIN contentTypes THEN 0 ELSE 1]

\* What runEvents does after writeContentFiles has returned.
WarningsAfterWrite(observable, contentTypes) ==
    IF observable.status = "loaded"
    THEN WarnNonexistentCollections(observable.config, contentTypes)
    ELSE NoWarnings

\* The loop of runEvents is over: the queue is cleared and, if some
\* response asks for it, writeContentFiles runs up to its await of writeFile.
FinishLoop(p) ==
    /\ p \in DOMAIN passes
    /\ passes[p].pc = "loop"
    /\ passes[p].idx = Len(Arr(p))
    /\ events' = << >>
    /\ LET generate == ShouldGenerate(passes[p].responses)
       IN  IF generate
           THEN /\ passes' = [Detach(passes, events) EXCEPT
                       ![p] = Writing(passes[p],
                                      WriteContentFiles(collectionTypes,
                                          LoadedConfig(contentConfigObserver)),
                                      contentConfigObserver)]
                /\ UNCHANGED << lastEnded, initState >>
           ELSE /\ passes' = Remove(Detach(passes, events), p)
                /\ lastEnded' = Ended(passes[p], "done", passes[p].idx, FALSE,
                                      NoWarnings)
                /\ initState' = IF passes[p].kind = "init"
                                THEN "generated" ELSE initState
    /\ warned' = IF /\ UnsupportedFiles(passes[p].responses) # << >>
                     /\ passes[p].logLevel \in {"info", "warn"}
                  THEN UnsupportedFiles(passes[p].responses)
                  ELSE warned
    /\ UNCHANGED << writerVars, buildVars, feed, nestingWarned, lastLoad, collectionTypes, contentConfigObserver, debounceTimeout,
                    timers, manifestFile, nQueued, owed >>

\* writeFile resolves: the manifest is on disk, the configured collections
\* are cross-checked and runEvents returns.
WriteDone(p) ==
    /\ Idle
    /\ p \in DOMAIN passes
    /\ passes[p].pc = "write"
    /\ manifestFile' = passes[p].content
    /\ passes' = Remove(passes, p)
    /\ lastEnded' = Ended(passes[p], "done", passes[p].idx, TRUE,
                          WarningsAfterWrite(passes[p].observable[1],
                                             collectionTypes))
    /\ initState' = IF passes[p].kind = "init" THEN "generated" ELSE initState
    /\ UNCHANGED << writerVars, buildVars, feed, warned, nestingWarned, lastLoad, collectionTypes, contentConfigObserver, events,
                    debounceTimeout, timers, nQueued, owed >>

PassIds == 1..(MaxQueued + 1)

Next ==
    \/ InitCall
    \/ GlobDone
    \/ QueueEvent
    \/ TimerFire
    \/ \E p \in PassIds : HandleSyncEvent(p)
    \/ \E p \in PassIds : StartConfigLoad(p)
    \/ \E p \in PassIds : ConfigLoaded(p)
    \/ \E p \in PassIds : StartParseSlug(p)
    \/ \E p \in PassIds : SlugParsed(p)
    \/ \E p \in PassIds : SlugParseFails(p)
    \/ \E p \in PassIds : FinishLoop(p)
    \/ \E p \in PassIds : WriteDone(p)

Spec == Init /\ [][Next]_vars

\* ------------------------------------------- the writer on ordered objects
\* A JavaScript object as Object.keys sees it: a sequence of [key, value]
\* without repeated keys, in insertion order.  The Collection Map is an
\* object of objects.
ObjectKeys(obj) == [i \in 1..Len(obj) |-> obj[i].key]

KeySet(obj) == {obj[i].key : i \in 1..Len(obj)}

ObjectGet(obj, key) == obj[CHOOSE i \in 1..Len(obj) : obj[i].key = key].value

\* obj[key] = value: a new key goes last, a known key keeps its place.
ObjectSet(obj, key, value) ==
    IF key \in KeySet(obj)
    THEN [i \in 1..Len(obj) |->
             IF obj[i].key = key THEN [key |-> key, value |-> value] ELSE obj[i]]
    ELSE Append(obj, [key |-> key, value |-> value])

\* delete obj[key]
ObjectDelete(obj, key) == SelectSeq(obj, LAMBDA kv : kv.key # key)

\* The contents of an object of objects, insertion order forgotten: what
\* collectionTypes holds in the tracker above.
Contents(obj) ==
    [collectionKey \in KeySet(obj) |->
        [entryKey \in KeySet(ObjectGet(obj, collectionKey)) |->
            ObjectGet(ObjectGet(obj, collectionKey), entryKey)]]

\* Object.keys(...) without .sort(): the keys as inserted.
SortKeysForgotten(keys) == keys

\* Object.keys(...).sort()
SortKeys(keys) ==
    SelectSeq(LexOrder, LAMBDA k : \E i \in 1..Len(keys) : keys[i] = k)

\* writeContentFiles over the object it is handed.
WriteContentFilesOf(obj, contentConfig) ==
    LET collectionKeys == SortKeys(ObjectKeys(obj))
        collectionOf(collectionKey) ==
            LET entryKeys == SortKeys(ObjectKeys(ObjectGet(obj, collectionKey)))
            IN  [ key |-> collectionKey,
                  entries |-> [j \in 1..Len(entryKeys) |->
                                  EntryType(Contents(obj), contentConfig,
                                            collectionKey, entryKeys[j])] ]
    IN  [ entryMap |-> [i \in 1..Len(collectionKeys) |->
                           collectionOf(collectionKeys[i])],
          configType |-> IF contentConfig # << >> THEN "typeof import" ELSE "never" ]

WriterCollectionKeys == {JSONStringify("blog"), JSONStringify("docs")}
WriterEntries ==
    [key : {JSONStringify("a.md")}, value : {ContentMeta("custom")}]
       \cup [key : {JSONStringify("b.json")}, value : {DataMeta}]

InitWriter ==
    /\ feed = {}
    /\ TrackerInit
    /\ objects = [side \in Sides |-> << >>]
    /\ written = [side \in Sides |-> << >>]
    /\ writerConfig \in {<< >>} \cup {<< c >> : c \in Configs}
    /\ BuildIdle

\* A mutation of one object: what was written for it is out of date.
Mutated(side, obj) ==
    /\ objects' = [objects EXCEPT ![side] = obj]
    /\ written' = [written EXCEPT ![side] = << >>]
    /\ UNCHANGED << trackerVars, buildVars, writerConfig >>

\* addCollection
WriterAddCollection ==
    \E side \in Sides : \E collectionKey \in WriterCollectionKeys :
       Mutated(side, ObjectSet(objects[side], collectionKey, << >>))

\* removeCollection
WriterRemoveCollection ==
    \E side \in Sides : \E collectionKey \in KeySet(objects[side]) :
       Mutated(side, ObjectDelete(objects[side], collectionKey))

\* setEntry
WriterSetEntry ==
    \E side \in Sides : \E collectionKey \in KeySet(objects[side]) :
       \E entry \in WriterEntries :
          Mutated(side, ObjectSet(objects[side], collectionKey,
                     ObjectSet(ObjectGet(objects[side], collectionKey),
                               entry.key, entry.value)))

\* removeEntry
WriterRemoveEntry ==
    \E side \in Sides : \E collectionKey \in KeySet(objects[side]) :
       \E entryKey \in KeySet(ObjectGet(objects[side], collectionKey)) :
          Mutated(side, ObjectSet(objects[side], collectionKey,
                     ObjectDelete(ObjectGet(objects[side], collectionKey), entryKey)))

\* writeContentFiles
WriterWrite ==
    \E side \in Sides :
       /\ written' = [written EXCEPT ![side] =
                         << WriteContentFilesOf(objects[side], writerConfig) >>]
       /\ UNCHANGED << trackerVars, buildVars, objects, writerConfig >>

NextWriter ==
    \/ WriterAddCollection
    \/ WriterRemoveCollection
    \/ WriterSetEntry
    \/ WriterRemoveEntry
    \/ WriterWrite

SpecWriter == InitWriter /\ [][NextWriter]_vars

\* ============================================== build:post (assets plugin)
\* The 'build:post' hook of astroConfigBuildPlugin: for every server chunk
\* that bears a placeholder, the propagated styles and scripts of the pages
\* that own the chunk's modules are collected and substituted in its code.
MaxDepth == 5

\* The module ids of a build, in the order the bundler lists importers.
ModuleOrder == << "A", "B", "M", "N", "X" >>
Modules == {ModuleOrder[i] : i \in 1..Len(ModuleOrder)}

\* A module graph: edges << importer, imported >> and the top-level pages.
Graph(edges, pages) == [edges |-> edges, pages |-> pages]

Graphs ==
    { \* page A reaches M along two import paths
      Graph({<< "A", "X" >>, << "A", "N" >>, << "X", "M" >>, << "N", "M" >>}, {"A"}),
      \* A imports B, B imports A, A is top-level
      Graph({<< "A", "B" >>, << "B", "A" >>}, {"A"}),
      \* M is shared by two pages
      Graph({<< "A", "M" >>, << "B", "M" >>, << "B", "N" >>}, {"A", "B"}),
      \* a cycle below two pages
      Graph({<< "A", "X" >>, << "B", "X" >>, << "X", "M" >>, << "M", "X" >>}, {"A", "B"}),
      \* no page at all
      Graph({<< "X", "M" >>}, {}) }

\* getModuleInfo(id).importers.concat(dynamicImporters)
Importers(graph, id) == SelectSeq(ModuleOrder, LAMBDA m : << m, id >> \in graph.edges)

\* moduleIsTopLevelPage
ModuleIsTopLevelPage(graph, id) == id \in graph.pages

\* A piece of chunk code: text, a quoted placeholder, or what replaced one.
Token(kind, value) == [kind |-> kind, value |-> value]
Text         == Token("text", << >>)
LinksToken   == Token("placeholder", << "@@ASTRO-LINKS@@" >>)
StylesToken  == Token("placeholder", << "@@ASTRO-STYLES@@" >>)
ScriptsToken == Token("placeholder", << "@@ASTRO-SCRIPTS@@" >>)

\* The code load() gives a propagated-assets module.
PropagatedCode == << Text, LinksToken, StylesToken, ScriptsToken, Text >>

Chunk(modules, code) == [type |-> "chunk", modules |-> modules, code |-> code]
Asset == [type |-> "asset", modules |-> << >>, code |-> << >>]

\* ssrOutputs.flatMap((o) => o.output)
Outputs ==
    { << Chunk(<< "M" >>, PropagatedCode) >>,
      << Chunk(<< "M", "N" >>, PropagatedCode \o PropagatedCode) >>,
      << Chunk(<< "B", "M" >>, << Text, LinksToken >>),
         Chunk(<< "N" >>, << ScriptsToken, Text >>) >>,
      << Asset, Chunk(<< "X" >>, << Text >>), Chunk(<< "N", "M" >>, PropagatedCode) >>,
      << Chunk(<< >>, PropagatedCode) >> }

\* Page data: propagatedStyles and propagatedScripts, each a Map from a
\* module id to a Set (its values in insertion order).
PageData(styles, scripts) == [propagatedStyles |-> styles, propagatedScripts |-> scripts]
NoMap == << >>

Internals ==
    { ("A" :> PageData(("M" :> << "a.css" >>) @@ ("N" :> << "a.css" >>)
                          @@ ("B" :> << "b.css", "a.css" >>),
                       ("M" :> << "s.ts" >>)))
         @@ ("B" :> PageData(("M" :> << "b.css", "a.css" >>),
                             ("N" :> << "s.ts", "t.ts" >>))),
      \* B has no page data
      ("A" :> PageData(("M" :> << "a.css" >>), NoMap)),
      \* no page has propagated assets
      ("A" :> PageData(NoMap, NoMap)) @@ ("B" :> PageData(NoMap, NoMap)),
      \* scripts only
      ("A" :> PageData(NoMap, ("M" :> << "s.ts" >>))) }

ClientChunk(type, fileName, modules) ==
    [type |-> type, fileName |-> fileName, modules |-> modules]

ClientOutputs ==
    { << >>,
      << [output |-> << ClientChunk("chunk", "hoisted.1.js", << "s.ts" >>),
                        ClientChunk("asset", "x.css", << >>),
                        ClientChunk("chunk", "hoisted.2.js", << "t.ts", "s.ts" >>) >>],
         [output |-> << ClientChunk("chunk", "hoisted.1.js", << "s.ts" >>) >>] >> }

Settings ==
    { [assetsPrefix |-> "", base |-> "/"],
      [assetsPrefix |-> "", base |-> "docs"],
      [assetsPrefix |-> "https://cdn/", base |-> "/docs/"] }

\* ------------------------------------------------------- paths (path.js)
Srcs == {"a.css", "b.css", "hoisted.1.js", "hoisted.2.js"}

RemoveTrailingForwardSlash(path) ==
    CASE path = "/" -> ""
      [] path = "/docs/" -> "/docs"
      [] path = "https://cdn/" -> "https://cdn"
      [] OTHER -> path

\* joinPaths(a, src) for a src without a leading slash
JoinPaths(a, src) == RemoveTrailingForwardSlash(a) \o "/" \o src

StartsWithSlash == {JoinPaths(b, src) : b \in {"/", "/docs/"}, src \in Srcs}

PrependForwardSlash(path) == IF path \in StartsWithSlash THEN path ELSE "/" \o path

\* prependBase with the base path winning over the asset prefix.
PrependBaseIgnoresPrefix(src) ==
    PrependForwardSlash(JoinPaths(settings.base, src))

\* prependBase: the asset prefix wins over the base path.
PrependBase(src) ==
    IF settings.assetsPrefix # ""
    THEN JoinPaths(settings.assetsPrefix, src)
    ELSE PrependForwardSlash(JoinPaths(settings.base, src))

\* ------------------------------------------------------------ Set, Map
Has(set, value) == \E i \in 1..Len(set) : set[i] = value

\* An accumulator that keeps every value it is given, as an array would.
SetAddAsArrayPush(set, value) == Append(set, value)

\* Set.prototype.add: a Set keeps its values in insertion order, each once.
SetAdd(set, value) == IF Has(set, value) THEN set ELSE Append(set, value)

\* for (const value of values) set.add(value)
RECURSIVE AddAll(_, _)
AddAll(set, values) ==
    IF values = << >> THEN set
    ELSE AddAll(SetAdd(set, Head(values)), Tail(values))

\* map?.get(id): undefined is iterated as nothing.
MapGet(map, id) == IF id \in DOMAIN map THEN map[id] ELSE << >>

\* ----------------------------------------------------------- substitution
Includes(code, token) == \E i \in 1..Len(code) : code[i] = token

\* String.prototype.replace with a string pattern: the first occurrence.
Replace(code, token, replacement) ==
    IF ~Includes(code, token) THEN code
    ELSE LET first == CHOOSE i \in 1..Len(code) :
                         /\ code[i] = token
                         /\ \A j \in 1..(i - 1) : code[j] # token
         IN  [code EXCEPT ![first] = replacement]

RECURSIVE Flatten(_)
Flatten(outs) ==
    IF outs = << >> THEN << >> ELSE Head(outs).output \o Flatten(Tail(outs))

\* The file names of the client chunks that hold a module of entryScripts.
EntryFileNames(scripts) ==
    LET holding == SelectSeq(Flatten(clientOutputs),
                      LAMBDA clientChunk :
                         /\ clientChunk.type = "chunk"
                         /\ \E i \in 1..Len(clientChunk.modules) :
                               Has(scripts, clientChunk.modules[i]))
    IN  AddAll(<< >>, [i \in 1..Len(holding) |-> holding[i].fileName])

\* Both placeholders replaced whatever the accumulators hold.
NewCodeAlwaysReplaces(code, css, scripts) ==
    LET entryFileNames == EntryFileNames(scripts)
        links == Replace(code, LinksToken,
                   Token("array", [i \in 1..Len(css) |-> PrependBase(css[i])]))
    IN  Replace(links, ScriptsToken,
                   Token("scripts", [i \in 1..Len(entryFileNames) |->
                                        PrependBase(entryFileNames[i])]))

\* newCode as it is handed to mutate.
NewCode(code, css, scripts) ==
    LET entryFileNames == EntryFileNames(scripts)
        links == IF Len(css) > 0
                 THEN Replace(code, LinksToken,
                         Token("array", [i \in 1..Len(css) |-> PrependBase(css[i])]))
                 ELSE code
    IN  IF Len(scripts) > 0
        THEN Replace(links, ScriptsToken,
                Token("scripts", [i \in 1..Len(entryFileNames) |->
                                     PrependBase(entryFileNames[i])]))
        ELSE links

\* chunk.type === 'chunk' && (code.includes(LINKS) || code.includes(SCRIPTS))
BearsPlaceholder(chunk) ==
    /\ chunk.type = "chunk"
    /\ Includes(chunk.code, LinksToken) \/ Includes(chunk.code, ScriptsToken)

\* ------------------------------------------------------------ the Walker
\* walkParentInfos: a depth-first walk up the importer edges that yields
\* every module it visits and keeps the set of the modules seen.
Frame(id) == [id |-> id, next |-> 1]

\* A walker that never skips an importer.
SeenSkipsNothing(seen, importer) == FALSE

\* if (seen.has(importer)) continue
SeenSkips(seen, importer) == importer \in seen

\* -------------------------------------------------------------- the hook
InitBuild ==
    /\ feed = {}
    /\ TrackerInit
    /\ WriterInit
    /\ ssrPluginContext \in Graphs
    /\ internals \in Internals
    /\ outputs \in Outputs
    /\ clientOutputs \in ClientOutputs
    /\ settings \in Settings
    /\ post = [pc |-> "chunk", chunk |-> 1, id |-> 0, stack |-> << >>, seen |-> {},
               start |-> "", yielded |-> << >>]
    /\ entryCSS = << >>
    /\ entryScripts = << >>
    /\ mutated = [c \in 1..Len(outputs) |-> << >>]

BuildFrame == UNCHANGED << trackerVars, writerVars, buildInputs >>

\* The module the for-id loop is at.
CurrentId == outputs[post.chunk].modules[post.id]

\* The body of the loop over what the walker yields for id.
Collect(pageInfo, id) ==
    IF ModuleIsTopLevelPage(ssrPluginContext, pageInfo) /\ pageInfo \in DOMAIN internals
    THEN /\ entryCSS' = AddAll(entryCSS, MapGet(internals[pageInfo].propagatedStyles, id))
         /\ entryScripts' =
               AddAll(entryScripts, MapGet(internals[pageInfo].propagatedScripts, id))
    ELSE UNCHANGED << entryCSS, entryScripts >>

\* A chunk without placeholder, or an asset: the loop goes on.
SkipChunk ==
    /\ post.pc = "chunk"
    /\ post.chunk <= Len(outputs)
    /\ ~BearsPlaceholder(outputs[post.chunk])
    /\ post' = [post EXCEPT !.chunk = @ + 1]
    /\ UNCHANGED << entryCSS, entryScripts, mutated >>
    /\ BuildFrame

\* A chunk with a placeholder: fresh accumulators.
EnterChunk ==
    /\ post.pc = "chunk"
    /\ post.chunk <= Len(outputs)
    /\ BearsPlaceholder(outputs[post.chunk])
    /\ entryCSS' = << >>
    /\ entryScripts' = << >>
    /\ post' = [post EXCEPT !.pc = "ids", !.id = 1, !.start = "", !.yielded = << >>,
                            !.seen = {}]
    /\ UNCHANGED mutated
    /\ BuildFrame

\* walkParentInfos(id, ssrPluginContext) up to its first yield: id itself.
WalkStart ==
    /\ post.pc = "ids"
    /\ post.id <= Len(outputs[post.chunk].modules)
    /\ post' = [post EXCEPT !.pc = "walk", !.start = CurrentId,
                            !.seen = {CurrentId}, !.stack = << Frame(CurrentId) >>,
                            !.yielded = << CurrentId >>]
    /\ Collect(CurrentId, CurrentId)
    /\ UNCHANGED mutated
    /\ BuildFrame

\* The walker resumed: the next importer of the module on top, or back to
\* the module below when its importers are exhausted.
WalkStep ==
    /\ post.pc = "walk"
    /\ Len(post.stack) <= MaxDepth
    /\ LET top == post.stack[Len(post.stack)]
           importers == Importers(ssrPluginContext, top.id)
           below == SubSeq(post.stack, 1, Len(post.stack) - 1)
       IN  IF top.next > Len(importers)
           THEN /\ post' = IF below = << >>
                           THEN [post EXCEPT !.pc = "ids", !.id = @ + 1, !.stack = << >>]
                           ELSE [post EXCEPT !.stack = below]
                /\ UNCHANGED << entryCSS, entryScripts >>
           ELSE LET importer == importers[top.next]
                    advanced == Append(below, [top EXCEPT !.next = @ + 1])
                IN  IF SeenSkips(post.seen, importer)
                    THEN /\ post' = [post EXCEPT !.stack = advanced]
                         /\ UNCHANGED << entryCSS, entryScripts >>
                    ELSE /\ post' = [post EXCEPT
                                        !.stack = Append(advanced, Frame(importer)),
                                        !.seen = @ \cup {importer},
                                        !.yielded = Append(@, importer)]
                         /\ Collect(importer, CurrentId)
    /\ UNCHANGED mutated
    /\ BuildFrame

\* Every module id of the chunk walked: newCode and mutate(chunk, 'server', newCode).
Substitute ==
    /\ post.pc = "ids"
    /\ post.id > Len(outputs[post.chunk].modules)
    /\ mutated' = [mutated EXCEPT ![post.chunk] =
                      << NewCode(outputs[post.chunk].code, entryCSS, entryScripts) >>]
    /\ post' = [post EXCEPT !.pc = "mutated"]
    /\ UNCHANGED << entryCSS, entryScripts >>
    /\ BuildFrame

\* The loop over the chunks goes on.
NextChunk ==
    /\ post.pc = "mutated"
    /\ post' = [post EXCEPT !.pc = "chunk", !.chunk = @ + 1]
    /\ UNCHANGED << entryCSS, entryScripts, mutated >>
    /\ BuildFrame

\* No chunk left: the hook returns.
Return ==
    /\ post.pc = "chunk"
    /\ post.chunk > Len(outputs)
    /\ post' = [post EXCEPT !.pc = "done"]
    /\ UNCHANGED << entryCSS, entryScripts, mutated >>
    /\ BuildFrame

NextBuild ==
    \/ SkipChunk
    \/ EnterChunk
    \/ WalkStart
    \/ WalkStep
    \/ Substitute
    \/ NextChunk
    \/ Return

SpecBuild == InitBuild /\ [][NextBuild]_vars

\* The hook is synchronous code: it runs on until it returns.
SpecBuildFair == SpecBuild /\ WF_vars(NextBuild)

\* ================================================================ claims
\* Pass p returns from handleEvent for its current event in this step.
Handles(p) ==
    /\ p \in DOMAIN passes
    /\ Len(passes') = Len(passes)
    /\ passes[p].idx < Len(Arr(p))
    /\ passes'[p].idx = passes[p].idx + 1

\* The events pass p has got a response for, and the one it got last.
HandledBy(p) == [i \in 1..passes[p].idx |-> Arr(p)[i]]
Running(p) == p \in DOMAIN passes /\ passes[p].pc # "write"
LastHandled(p) == Arr(p)[passes[p].idx]

\* An event for a content or data entry inside a collection directory.
IsEntryEvent(event) ==
    /\ event.name \in FileEventNames
    /\ GetEntryType(event.entry) \in {"content", "data"}
    /\ GetEntryCollectionName(event.entry) # << >>

CollectionKeyOf(event) == JSONStringify(GetEntryCollectionName(event.entry)[1])
EntryKeyOf(event) ==
    JSONStringify(GetDataEntryId(event.entry, GetEntryCollectionName(event.entry)[1]))

IsDeepDirEvent(event) ==
    event.name \in DirEventNames /\ Len(RelativeSplit(event.entry)) > 1
IsCollectionDirEvent(event) ==
    event.name \in DirEventNames /\ Len(RelativeSplit(event.entry)) = 1

\* How many events pass p has called handleEvent for.
Begun(p) ==
    passes[p].idx + (IF passes[p].pc \in {"config", "slug"} THEN 1 ELSE 0)

\* C1: at most one processing pass (runEvents) is in progress at any
\* moment, so no two passes handle events concurrently and no two manifest
\* writes overlap.
C1_OnePassAtATime ==
    /\ Len(passes) <= 1
    /\ Cardinality({p \in DOMAIN passes : passes[p].pc = "write"}) <= 1

\* C2: an event queued while a pass is in flight is not handled by that
\* pass: a pass calls handleEvent only for the events that were queued when
\* it started.
C2_InFlightPassLeavesLaterEvents ==
    \A p \in DOMAIN passes : Begun(p) <= passes[p].lenAtStart

\* C3: a burst of queueEvent calls, each before the timer of the previous
\* one fires, starts exactly one pass (the bursts begun so far minus the
\* timer passes started so far is the number of pending timers), at most
\* one timer is pending at every moment, and a pass started by the timer
\* while no other pass runs handles every event of the burst.
C3_OnePassPerBurst ==
    /\ Cardinality(timers) <= 1
    /\ owed = Cardinality(timers)
    /\ (lastEnded.kind = "timer" /\ lastEnded.solo) => lastEnded.skipped = 0

\* C4: a failure while handling one event of a batch does not keep the
\* other events of the batch from being handled: a pass in which handleEvent
\* threw has still called handleEvent for every event of its batch.
C4_FailureLeavesOtherEventsHandled ==
    lastEnded.pc \in {"caught", "thrown"} => lastEnded.skipped = 0

\* C5: an exception raised during event handling reaches the caller if and
\* only if the pass was started by init: a timer pass has it caught and the
\* tracker goes on accepting events, the init pass lets it out of init.
C5_ExceptionReachesCallerIffInit ==
    /\ lastEnded.pc = "thrown" <=> initState = "threw"
    /\ lastEnded.pc = "thrown" => lastEnded.kind = "init"
    /\ lastEnded.pc = "caught" =>
          lastEnded.kind = "timer" /\ initState \in {"none", "generated"}

\* A timer pass threw and was caught, and a pass started after it ended has
\* handled events.
C5_Witness ==
    /\ lastEnded.pc = "caught"
    /\ \E p \in DOMAIN passes : passes[p].solo /\ passes[p].idx >= 1

Unlink(event) == Event("unlink", event.entry, event.logLevel)

\* C6 as stated: for every Collection Map and every entry path inside a
\* collection directory, handling add and then unlink for the path leaves
\* the map equal to the one before the add.
C6_AddUnlinkRoundTrip ==
    [][\A p \in PassIds :
          (Handles(p) /\ IsEntryEvent(CurrentEvent(p)) /\ CurrentEvent(p).name = "add")
             => HandleEvent(collectionTypes', Unlink(CurrentEvent(p)), "").types
                   = collectionTypes]_vars

\* C6 amended: handling add and then unlink for an entry path leaves the
\* map equal to the one before the add when, before the add, the key of the
\* collection is tracked and the key of the entry is not.
C6_AddUnlinkRoundTripWhenFresh ==
    [][\A p \in PassIds :
          (/\ Handles(p)
           /\ IsEntryEvent(CurrentEvent(p))
           /\ CurrentEvent(p).name = "add"
           /\ CollectionKeyOf(CurrentEvent(p)) \in DOMAIN collectionTypes
           /\ ~HasEntry(collectionTypes, CollectionKeyOf(CurrentEvent(p)),
                        EntryKeyOf(CurrentEvent(p))))
             => HandleEvent(collectionTypes', Unlink(CurrentEvent(p)), "").types
                   = collectionTypes]_vars

\* A pass has handled add and then unlink for one entry of a collection
\* that holds another entry.
C6_Witness ==
    \E p \in DOMAIN passes :
       /\ Running(p)
       /\ passes[p].idx >= 2
       /\ IsEntryEvent(LastHandled(p))
       /\ LastHandled(p).name = "unlink"
       /\ HandledBy(p)[passes[p].idx - 1].name = "add"
       /\ HandledBy(p)[passes[p].idx - 1].entry = LastHandled(p).entry
       /\ CollectionKeyOf(LastHandled(p)) \in DOMAIN collectionTypes
       /\ collectionTypes[CollectionKeyOf(LastHandled(p))] # EmptyObject
       /\ ~HasEntry(collectionTypes, CollectionKeyOf(LastHandled(p)),
                    EntryKeyOf(LastHandled(p)))

\* C7: a change event whose recomputed slug differs from the stored one
\* always causes a manifest write: a pass that updated a stored slug for a
\* change event has written the manifest when it ends.
C7_ChangedSlugIsWritten ==
    lastEnded.elevated => lastEnded.wrote

\* C8 as stated: a collection key is added to or removed from the map only
\* while handling an addDir or unlinkDir event at depth 1.
C8_OnlyDirEventsChangeCollections ==
    [][DOMAIN collectionTypes' # DOMAIN collectionTypes
          => \E p \in PassIds : Handles(p) /\ IsCollectionDirEvent(CurrentEvent(p))]_vars

\* C8 amended: a collection key is removed only while handling an unlinkDir
\* event at depth 1 for it, and added only while handling an addDir event
\* at depth 1 for it or an add event for a content or data entry of it;
\* change and unlink events never create and never remove a collection.
C8_CollectionsChangeByDirOrEntryAdd ==
    [][\A k \in (DOMAIN collectionTypes' \cup DOMAIN collectionTypes) :
          /\ (k \in DOMAIN collectionTypes /\ k \notin DOMAIN collectionTypes')
                => \E p \in PassIds :
                      /\ Handles(p)
                      /\ IsCollectionDirEvent(CurrentEvent(p))
                      /\ CurrentEvent(p).name = "unlinkDir"
                      /\ JSONStringify(RelativePath(CurrentEvent(p).entry)) = k
          /\ (k \notin DOMAIN collectionTypes /\ k \in DOMAIN collectionTypes')
                => \E p \in PassIds :
                      /\ Handles(p)
                      /\ \/ /\ IsCollectionDirEvent(CurrentEvent(p))
                            /\ CurrentEvent(p).name = "addDir"
                            /\ JSONStringify(RelativePath(CurrentEvent(p).entry)) = k
                         \/ /\ IsEntryEvent(CurrentEvent(p))
                            /\ CurrentEvent(p).name = "add"
                            /\ CollectionKeyOf(CurrentEvent(p)) = k]_vars

\* A pass has handled an add event for an entry of a collection that no
\* addDir event was handled for, and the collection is tracked.
C8_Witness ==
    /\ \A raw \in feed : raw.name # "addDir"
    /\ \E p \in DOMAIN passes :
          /\ Running(p)
          /\ passes[p].idx >= 1
          /\ IsEntryEvent(LastHandled(p))
          /\ LastHandled(p).name = "add"
          /\ CollectionKeyOf(LastHandled(p)) \in DOMAIN collectionTypes

\* C9: in every reachable Collection Map all entries of one collection
\* carry the same type tag.
C9_CollectionsHomogeneous ==
    \A k \in DOMAIN collectionTypes :
       \A e1, e2 \in DOMAIN collectionTypes[k] :
          collectionTypes[k][e1].type = collectionTypes[k][e2].type

\* C10: handling an addDir or unlinkDir event whose path is more than one
\* level below the content root leaves the Collection Map unchanged and
\* reports that no regeneration is needed.
C10_DeepDirEventIgnored ==
    [][\A p \in PassIds :
          (Handles(p) /\ IsDeepDirEvent(CurrentEvent(p)))
             => /\ collectionTypes' = collectionTypes
                /\ passes'[p].responses =
                      Append(passes[p].responses, Response(FALSE))]_vars

\* A pass has handled a directory event two levels below the content root
\* and holds its response.
C10_Witness ==
    \E p \in DOMAIN passes :
       /\ Running(p)
       /\ passes[p].idx >= 1
       /\ IsDeepDirEvent(LastHandled(p))
       /\ passes[p].responses[passes[p].idx] = Response(FALSE)

\* C11: handling a config event first sets the observable to 'loading'
\* (it is 'loading' only while some pass awaits the loader, and 'unloaded'
\* only while no config event has been handled), and when the handling
\* completes the observable is 'loaded' with the returned config, 'does-
\* not-exist' when the loader returned none, 'error' with the cause when
\* it threw.
C11_ObservableFollowsLoader ==
    /\ contentConfigObserver.status = "unloaded" <=> lastLoad.kind = "none"
    /\ contentConfigObserver.status = "loading" <=> lastLoad.kind = "pending"
    /\ contentConfigObserver.status = "loading"
          => \E p \in DOMAIN passes : passes[p].pc = "config"
    /\ lastLoad.kind = "config"
          => contentConfigObserver = [status |-> "loaded", config |-> lastLoad.config]
    /\ lastLoad.kind = "undefined"
          => contentConfigObserver = [status |-> "does-not-exist"]
    /\ lastLoad.kind = "throws"
          => contentConfigObserver = [status |-> "error", error |-> "cause"]
    /\ \A p \in DOMAIN passes :
          (Running(p) /\ passes[p].idx >= 1
              /\ GetEntryType(LastHandled(p).entry) = "config"
              /\ LastHandled(p).name \in FileEventNames)
             => lastLoad.kind \in {"config", "undefined", "throws", "pending"}

\* A pass has handled a config event for which the loader threw, and the
\* observable carries the error.
C11_Witness ==
    /\ lastLoad.kind = "throws"
    /\ contentConfigObserver.status = "error"
    /\ \E p \in DOMAIN passes :
          /\ Running(p)
          /\ passes[p].idx >= 1
          /\ GetEntryType(LastHandled(p).entry) = "config"

\* Pass p ends in this step, as the pass lastEnded' describes.
Ends(p) ==
    /\ p \in DOMAIN passes
    /\ passes' = Remove(passes, p) \/ passes' = Remove(Detach(passes, events), p)
    /\ lastEnded'.kind = passes[p].kind

\* One warning for each configured name the map lacks, none for the others.
OneWarningPerAbsentCollection(warnings, config, contentTypes) ==
    /\ DOMAIN warnings = DOMAIN config.collections
    /\ \A name \in DOMAIN config.collections :
          warnings[name] = IF \E k \in DOMAIN contentTypes : JSONParse(k) = name
                           THEN 0 ELSE 1

\* C12 as stated: at the end of each processing pass in which the
\* observable is 'loaded', exactly one 'is not a collection' warning is
\* emitted for each configured collection name that is not a key of the
\* map after the batch, and none for the configured names that are tracked.
\* (Stated for the passes that end while no other pass is in progress and
\* that had events to handle.)
C12_WarningsAtEndOfEveryPass ==
    [][\A p \in PassIds :
          (/\ Ends(p)
           /\ lastEnded'.pc = "done"
           /\ Len(passes) = 1
           /\ passes[p].lenAtStart >= 1
           /\ contentConfigObserver'.status = "loaded")
             => OneWarningPerAbsentCollection(lastEnded'.warnings,
                                              contentConfigObserver'.config,
                                              collectionTypes')]_vars

\* C12 amended: a pass that wrote the manifest and read the observable as
\* 'loaded' after its loop emits, when the write has completed, exactly
\* one warning for each configured collection name that is not a key of
\* the map and none for the tracked ones; a pass that writes no manifest
\* or read another observable state emits no such warning.
C12_WarningsAfterWrite ==
    [][\A p \in PassIds :
          Ends(p) =>
             IF /\ passes[p].pc = "write"
                /\ passes[p].observable[1].status = "loaded"
             THEN OneWarningPerAbsentCollection(lastEnded'.warnings,
                                                passes[p].observable[1].config,
                                                collectionTypes')
             ELSE lastEnded'.warnings = NoWarnings]_vars

\* A pass wrote the manifest with the config loaded and warned about the
\* configured collection that is not tracked, not about the tracked one.
C12_Witness ==
    /\ lastEnded.wrote
    /\ lastEnded.warnings # NoWarnings
    /\ \E tracked, absent \in DOMAIN lastEnded.warnings :
          /\ lastEnded.warnings[tracked] = 0
          /\ lastEnded.warnings[absent] = 1
          /\ JSONStringify(tracked) \in DOMAIN collectionTypes
          /\ JSONStringify(absent) \notin DOMAIN collectionTypes

\* An add event for a content entry file inside a collection directory.
IsContentAdd(event) ==
    /\ IsEntryEvent(event)
    /\ event.name = "add"
    /\ GetEntryType(event.entry) = "content"

\* The slug of a content file: the frontmatter override when present,
\* otherwise the path below the collection directory without extension.
SlugOfFile(entry, frontmatter) ==
    IF frontmatter = "none" THEN Join(Append(Tail(entry.dirs), entry.stem))
    ELSE frontmatter

\* C13 as stated: after an add event has been handled for a content entry
\* file inside a collection directory, the map holds that entry under that
\* collection with type 'content' and the slug computed from the file at
\* that moment.
C13_AddStoresComputedSlug ==
    [][\A p \in PassIds :
          (Handles(p) /\ IsContentAdd(CurrentEvent(p)))
             => /\ HasEntry(collectionTypes', CollectionKeyOf(CurrentEvent(p)),
                            EntryKeyOf(CurrentEvent(p)))
                /\ collectionTypes'[CollectionKeyOf(CurrentEvent(p))]
                                   [EntryKeyOf(CurrentEvent(p))]
                      = [type |-> "content",
                         slug |-> SlugOfFile(CurrentEvent(p).entry,
                                             passes'[p].frontmatter)]]_vars

\* C13 amended: after such an add event has been handled the map holds the
\* entry under its collection; when the entry was not tracked before, with
\* type 'content' and the slug computed from the file at that moment, and
\* when it was tracked, with the metadata it had.
C13_AddStoresComputedSlugWhenFresh ==
    [][\A p \in PassIds :
          (Handles(p) /\ IsContentAdd(CurrentEvent(p)))
             => /\ HasEntry(collectionTypes', CollectionKeyOf(CurrentEvent(p)),
                            EntryKeyOf(CurrentEvent(p)))
                /\ collectionTypes'[CollectionKeyOf(CurrentEvent(p))]
                                   [EntryKeyOf(CurrentEvent(p))]
                      = IF HasEntry(collectionTypes, CollectionKeyOf(CurrentEvent(p)),
                                    EntryKeyOf(CurrentEvent(p)))
                        THEN collectionTypes[CollectionKeyOf(CurrentEvent(p))]
                                            [EntryKeyOf(CurrentEvent(p))]
                        ELSE [type |-> "content",
                              slug |-> SlugOfFile(CurrentEvent(p).entry,
                                                  passes'[p].frontmatter)]]_vars

\* A pass has handled an add event for a content file whose frontmatter
\* sets the slug, and the map holds the entry with that slug.
C13_Witness ==
    \E p \in DOMAIN passes :
       /\ Running(p)
       /\ passes[p].idx >= 1
       /\ IsContentAdd(LastHandled(p))
       /\ passes[p].frontmatter = "custom"
       /\ HasEntry(collectionTypes, CollectionKeyOf(LastHandled(p)),
                   EntryKeyOf(LastHandled(p)))
       /\ collectionTypes[CollectionKeyOf(LastHandled(p))]
                         [EntryKeyOf(LastHandled(p))].slug = "custom"

\* A change event for a data entry.
IsDataChange(event) ==
    event.name = "change" /\ GetEntryType(event.entry) = "data"

\* Pass p is at the end of its loop over a batch of one event, a change of
\* a data entry.
AfterLoneDataChange(p) ==
    /\ p \in DOMAIN passes
    /\ passes[p].pc = "loop"
    /\ Len(Arr(p)) = 1
    /\ passes[p].idx = 1
    /\ IsDataChange(Arr(p)[1])

\* C14: a change event for a data entry never requires regeneration and
\* leaves the map unchanged, whether or not the entry is tracked; a pass
\* whose only event is such a change ends without a manifest write.
C14_DataChangeIsInert ==
    [][\A p \in PassIds :
          /\ (Handles(p) /\ IsDataChange(CurrentEvent(p)))
                => /\ collectionTypes' = collectionTypes
                   /\ passes'[p].responses =
                         Append(passes[p].responses, Response(FALSE))
          /\ (AfterLoneDataChange(p) /\ passes' # passes)
                => /\ Ends(p)
                   /\ lastEnded'.pc = "done"
                   /\ ~lastEnded'.wrote
                   /\ manifestFile' = manifestFile
                   /\ \A q \in DOMAIN passes' : passes'[q].pc = "write"
                         => \E r \in DOMAIN passes : r # p /\ passes[r] = passes'[q]]_vars

\* A pass has handled its only event, a change of a tracked data entry,
\* and holds the response that asks for no regeneration.
C14_Witness ==
    \E p \in DOMAIN passes :
       /\ AfterLoneDataChange(p)
       /\ passes[p].responses = << Response(FALSE) >>
       /\ HasEntry(collectionTypes, CollectionKeyOf(Arr(p)[1]), EntryKeyOf(Arr(p)[1]))

\* C15: when the content root does not exist, init returns the outcome
\* 'no-content-dir' without throwing; it has queued and handled no event,
\* left the map and the observable as they were and written no manifest.
C15_MissingContentRoot ==
    initState = "no-content-dir"
       => /\ events = << >>
          /\ passes = << >>
          /\ timers = {}
          /\ lastEnded = NoPass
          /\ collectionTypes = EmptyObject
          /\ contentConfigObserver = [status |-> "unloaded"]
          /\ lastLoad.kind = "none"
          /\ manifestFile = << >>

\* init has returned 'no-content-dir'.
C15_Witness ==
    initState = "no-content-dir" /\ nQueued = 0 /\ events = << >>

\* The place of a key in lexicographic order.
LexPlace(key) == CHOOSE i \in 1..Len(LexOrder) : LexOrder[i] = key

InLexOrder(keyed) ==
    \A i, j \in 1..Len(keyed) : i < j => LexPlace(keyed[i].key) < LexPlace(keyed[j].key)

\* C16: the entry-map body of the manifest is a function of the contents
\* of the Collection Map and of the config only: collections appear in
\* lexicographic order of name and entries in lexicographic order of id, so
\* two writes over maps with equal contents, whatever order their keys were
\* inserted in, and the same config give the same output, which is the
\* output the tracker's writer gives for those contents.
C16_ManifestIgnoresInsertionOrder ==
    /\ \A side \in Sides :
          written[side] # << >> =>
             /\ InLexOrder(written[side][1].entryMap)
             /\ \A i \in 1..Len(written[side][1].entryMap) :
                   InLexOrder(written[side][1].entryMap[i].entries)
             /\ {written[side][1].entryMap[i].key :
                    i \in 1..Len(written[side][1].entryMap)} = KeySet(objects[side])
             /\ written[side][1] =
                   WriteContentFiles(Contents(objects[side]), writerConfig)
    /\ (/\ written["first"] # << >>
        /\ written["second"] # << >>
        /\ Contents(objects["first"]) = Contents(objects["second"]))
          => written["first"] = written["second"]

\* Two maps with the same contents, two collections and two entries in one
\* of them, whose keys were inserted in different orders, both written.
C16_Witness ==
    /\ written["first"] # << >>
    /\ written["second"] # << >>
    /\ Contents(objects["first"]) = Contents(objects["second"])
    /\ ObjectKeys(objects["first"]) # ObjectKeys(objects["second"])
    /\ \E collectionKey \in KeySet(objects["first"]) :
          ObjectKeys(ObjectGet(objects["first"], collectionKey))
             # ObjectKeys(ObjectGet(objects["second"], collectionKey))

\* ----------------------------------------------------- build:post claims
Range(seq) == {seq[i] : i \in 1..Len(seq)}

NoDuplicates(seq) == \A i, j \in 1..Len(seq) : seq[i] = seq[j] => i = j

\* The modules that import m, directly or through other modules, and m.
RECURSIVE ImportersClosure(_, _)
ImportersClosure(graph, S) ==
    LET more == S \cup {e[1] : e \in {d \in graph.edges : d[2] \in S}}
    IN  IF more = S THEN S ELSE ImportersClosure(graph, more)

\* The top-level pages with page data that own module m.
OwningPages(m) ==
    {p \in ImportersClosure(ssrPluginContext, {m}) :
        p \in ssrPluginContext.pages /\ p \in DOMAIN internals}

\* The propagated styles of the owning pages for the modules of chunk c.
StylesOf(c) ==
    UNION {Range(MapGet(internals[p].propagatedStyles, outputs[c].modules[i])) :
              << i, p >> \in {ip \in (1..Len(outputs[c].modules)) \X Modules :
                                ip[2] \in OwningPages(outputs[c].modules[ip[1]])}}

\* The places where the code handed to mutate differs from the chunk's.
Replaced(c, token) ==
    {i \in 1..Len(outputs[c].code) :
        outputs[c].code[i] = token /\ mutated[c][1][i] # token}

\* C17: when build:post has handed a chunk bearing the link placeholder to
\* mutate, the style accumulator holds exactly the propagated styles that
\* the top-level pages with page data owning the chunk's modules have for
\* these modules, and if there is any, exactly one link placeholder has been
\* replaced, by an array of the prefixed URLs that holds each of them once.
C17_StylesUnionReplacedOnce ==
    (post.pc = "mutated" /\ Includes(outputs[post.chunk].code, LinksToken)) =>
       /\ Range(entryCSS) = StylesOf(post.chunk)
       /\ StylesOf(post.chunk) # {} =>
             \E i \in 1..Len(outputs[post.chunk].code) :
                LET array == mutated[post.chunk][1][i]
                IN  /\ Replaced(post.chunk, LinksToken) = {i}
                    /\ array.kind = "array"
                    /\ NoDuplicates(array.value)
                    /\ Len(array.value) = Cardinality(StylesOf(post.chunk))
                    /\ Range(array.value) = {PrependBase(u) : u \in StylesOf(post.chunk)}

\* Page A imports M along two paths and shares a style between M and N: the
\* chunk of M and N has been handed to mutate with ["/a.css"] in place of
\* its first link placeholder.
C17_Witness ==
    /\ post.pc = "mutated"
    /\ << "X", "M" >> \in ssrPluginContext.edges /\ << "N", "M" >> \in ssrPluginContext.edges
    /\ outputs[post.chunk].modules = << "M", "N" >>
    /\ entryCSS = << "a.css" >>
    /\ mutated[post.chunk][1][2] = Token("array", << "/a.css" >>)
    /\ mutated[post.chunk][1][7] = LinksToken

\* The propagated scripts of the owning pages for the modules of chunk c.
ScriptsOf(c) ==
    UNION {Range(MapGet(internals[p].propagatedScripts, outputs[c].modules[i])) :
              << i, p >> \in {ip \in (1..Len(outputs[c].modules)) \X Modules :
                                ip[2] \in OwningPages(outputs[c].modules[ip[1]])}}

\* C18: when build:post has handed a chunk to mutate, no link placeholder
\* has been replaced if the style accumulator is empty, no script placeholder
\* has been replaced if the script accumulator is empty, and the code handed
\* over is the chunk's own code if no module of the chunk has an owning page
\* with propagated styles or scripts for it.
C18_EmptyAccumulatorKeepsToken ==
    post.pc = "mutated" =>
       /\ entryCSS = << >> => Replaced(post.chunk, LinksToken) = {}
       /\ entryScripts = << >> => Replaced(post.chunk, ScriptsToken) = {}
       /\ (StylesOf(post.chunk) = {} /\ ScriptsOf(post.chunk) = {}) =>
             mutated[post.chunk] = << outputs[post.chunk].code >>

\* A chunk with both placeholders whose module M is owned by a page without
\* propagated assets has been handed to mutate with its code as it was.
C18_Witness ==
    /\ post.pc = "mutated"
    /\ outputs[post.chunk].modules = << "M" >>
    /\ "A" \in OwningPages("M")
    /\ entryCSS = << >> /\ entryScripts = << >>
    /\ Includes(mutated[post.chunk][1], LinksToken)
    /\ Includes(mutated[post.chunk][1], ScriptsToken)

\* The modules that import m directly or through other modules.
TransitiveImporters(m) ==
    LET direct == {e[1] : e \in {d \in ssrPluginContext.edges : d[2] = m}}
    IN  IF direct = {} THEN {} ELSE ImportersClosure(ssrPluginContext, direct)

\* How often the walk going on, or the last one, has reported module m.
Reports(m) == Cardinality({i \in 1..Len(post.yielded) : post.yielded[i] = m})

\* A walk was started for the chunk and has come to its end.
WalkEnded == post.pc = "ids" /\ post.start # ""

WalkReportsOnce ==
    \A p \in ssrPluginContext.pages :
       /\ Reports(p) <= 1
       /\ (WalkEnded /\ p \in TransitiveImporters(post.start)) => Reports(p) = 1

\* C19: a walk up the importer edges never reports a top-level page twice,
\* has reported every top-level page that transitively imports its starting
\* module once when it ends, and every walk ends: the hook gets to its return,
\* also on the graphs with import cycles.
C19_WalkTerminatesReportingOnce ==
    []WalkReportsOnce /\ <>(post.pc = "done")

\* A imports B, B imports A, A is top-level: the walk from B has ended and
\* has reported B and then A.
C19_Witness ==
    /\ ssrPluginContext.edges = {<< "A", "B" >>, << "B", "A" >>}
    /\ WalkEnded
    /\ post.start = "B"
    /\ post.yielded = << "B", "A" >>

\* ------------------------------------------------------------ the tracker
\* Some event pass p got a response for asked for regeneration (a pass
\* suspended in writeContentFiles is there because one did).
RequiredRegeneration(p) ==
    passes[p].pc = "write" \/ ShouldGenerate(passes[p].responses)

\* Pass p leaves its loop for writeContentFiles in this step.
StartsWriting(p) ==
    /\ p \in DOMAIN passes /\ p \in DOMAIN passes'
    /\ passes[p].pc = "loop"
    /\ passes'[p].pc = "write"

\* C20: a pass that ends has written the manifest, once, if and only if
\* some event it handled asked for regeneration, and what a pass writes is
\* the manifest of the Collection Map and the observable as they are when
\* its last event has been handled.
C20_OneWriteIffRegeneration ==
    [][\A p \in PassIds :
          /\ Ends(p) =>
                /\ lastEnded'.wrote <=> RequiredRegeneration(p)
                /\ lastEnded'.wrote => manifestFile' = passes[p].content
          /\ StartsWriting(p) =>
                passes'[p].content =
                   << WriteContentFiles(collectionTypes,
                                        LoadedConfig(contentConfigObserver)) >>]_vars

\* Pass p comes out of its loop in this step: it ends there or goes on to
\* writeContentFiles.
LeavesLoop(p) ==
    \/ Ends(p) /\ passes[p].pc # "write"
    \/ StartsWriting(p)

\* The events pass p found queued when it started.
FoundQueued(p) ==
    {Arr(p)[i] : i \in 1..passes[p].lenAtStart}

\* C21: when a pass comes out of its loop, normally or through an
\* exception, none of the events it found queued is still in the queue.
C21_QueueClearedAfterPass ==
    [][\A p \in PassIds :
          LeavesLoop(p) =>
             \A i \in 1..Len(events') : events'[i] \notin FoundQueued(p)]_vars

\* Pass p is inside handleEvent for a config event in this step: it calls
\* the config loader or the loader settles.
HandlesConfigEvent(p) ==
    /\ p \in DOMAIN passes
    /\ passes[p].pc \in {"loop", "config"}
    /\ passes[p].idx < Len(Arr(p))
    /\ CurrentEvent(p).name \in FileEventNames
    /\ GetEntryType(CurrentEvent(p).entry) = "config"
    /\ p \in DOMAIN passes'
    /\ passes'[p].idx = passes[p].idx + 1 \/ passes'[p].pc = "config"

\* C22: the observable changes only in a step of handleEvent for a config
\* event; a step in which a pass gets the response for any other event,
\* starts, ends or writes leaves it as it is.
C22_ObservableChangesOnlyForConfigEvent ==
    [][contentConfigObserver' # contentConfigObserver =>
          \E p \in PassIds : HandlesConfigEvent(p)]_vars

\* The config is loaded and a pass has since handled an event that is not a
\* config event.
C22_Witness ==
    /\ contentConfigObserver.status = "loaded"
    /\ \E p \in DOMAIN passes :
          /\ Running(p)
          /\ passes[p].idx >= 1
          /\ GetEntryType(LastHandled(p).entry) # "config"
          /\ passes[p].kind = "timer"

\* The config loader throws in this step.
LoaderThrows ==
    lastLoad.kind = "pending" /\ lastLoad'.kind = "throws"

\* C23: in the step in which the config loader throws, the observable goes
\* to 'error', no pass ends, init does not fail, and the pass that called
\* the loader has its response and is back in its loop for the events that
\* remain.
C23_LoaderFailureIsRecorded ==
    [][LoaderThrows =>
          /\ contentConfigObserver'.status = "error"
          /\ Len(passes') = Len(passes)
          /\ lastEnded' = lastEnded
          /\ initState' = initState
          /\ \E p \in DOMAIN passes :
                /\ passes[p].pc = "config"
                /\ passes'[p].pc = "loop"
                /\ passes'[p].idx = passes[p].idx + 1]_vars

\* The loader threw for the config event of init, and init went on to
\* handle the file that glob found.
C23_Witness ==
    /\ contentConfigObserver.status = "error"
    /\ lastLoad.kind = "throws"
    /\ \E p \in DOMAIN passes :
          /\ passes[p].kind = "init"
          /\ Running(p)
          /\ passes[p].idx = 2
          /\ GetEntryType(LastHandled(p).entry) = "data"

IsConfigEvent(event) ==
    event.name \in FileEventNames /\ GetEntryType(event.entry) = "config"

\* Pass p has got the response for a config event.
HandledConfigEvent(p) ==
    \E i \in 1..passes[p].idx : IsConfigEvent(Arr(p)[i])

\* C24: the response for a config event asks for regeneration whatever the
\* loader did, no pass that has handled a config event ends without having
\* written the manifest, and init on an existing content root ends with the
\* manifest written.
C24_ConfigEventMakesPassWrite ==
    [][\A p \in PassIds :
          /\ (Handles(p) /\ IsConfigEvent(CurrentEvent(p))) =>
                passes'[p].responses[Len(passes'[p].responses)].shouldGenerateTypes
          /\ (Ends(p) /\ passes[p].pc # "write") => ~HandledConfigEvent(p)
          /\ (Ends(p) /\ passes[p].kind = "init") => lastEnded'.wrote]_vars

IsUnsupportedEvent(event) ==
    event.name \in FileEventNames /\ GetEntryType(event.entry) = "unsupported"

\* Pass p comes out of its loop in this step with every event handled.
LeavesLoopNormally(p) ==
    /\ LeavesLoop(p)
    /\ passes[p].pc = "loop"
    /\ passes[p].idx = Len(Arr(p))

\* The paths, below the content root, of the unsupported files pass p was
\* told were added or changed, in the order of its batch.
UnsupportedPathsOf(p) ==
    LET reported == SelectSeq(HandledBy(p),
                       LAMBDA event : /\ IsUnsupportedEvent(event)
                                      /\ event.name \in {"add", "change"})
    IN  [i \in 1..Len(reported) |-> RelativePath(reported[i].entry)]

\* C25: handling an event for an unsupported file leaves the Collection Map
\* alone and asks for no regeneration; a warning about unsupported files is
\* logged only when a pass comes out of its loop, and it lists in batch order
\* the paths of the unsupported files of the add and change events of this
\* pass (nothing is logged when there is none).
C25_UnsupportedFilesWarnedOncePerPass ==
    [][/\ \A p \in PassIds :
             /\ (Handles(p) /\ IsUnsupportedEvent(CurrentEvent(p))) =>
                   /\ collectionTypes' = collectionTypes
                   /\ ~passes'[p].responses[Len(passes'[p].responses)].shouldGenerateTypes
             /\ LeavesLoopNormally(p) =>
                   warned' = IF UnsupportedPathsOf(p) # << >>
                             THEN UnsupportedPathsOf(p) ELSE warned
       /\ warned' # warned => \E p \in PassIds : LeavesLoopNormally(p)]_vars

\* A timer pass was told of the change of y.txt and then of the add of
\* blog/x.txt, and has warned about both in that order.
C25_Witness ==
    /\ warned = << "y.txt", "blog/x.txt" >>
    /\ lastEnded.pc = "done"
    /\ lastEnded.kind = "timer"

\* An event for a content or data file directly below the content root.
IsRootEntryEvent(event) ==
    /\ event.name \in FileEventNames
    /\ GetEntryType(event.entry) \in {"content", "data"}
    /\ Len(Segments(event.entry)) = 1

\* C26: handling an event for a content or data file that sits directly
\* below the content root logs the 'must be nested' warning for its path,
\* leaves the Collection Map alone and asks for no regeneration; the warning
\* is logged for no other event, and the key of the content root itself
\* never holds an entry.
C26_RootEntryIsSkipped ==
    [][/\ \A p \in PassIds :
             (Handles(p) /\ IsRootEntryEvent(CurrentEvent(p))) =>
                /\ nestingWarned' = << RelativePath(CurrentEvent(p).entry) >>
                /\ collectionTypes' = collectionTypes
                /\ ~passes'[p].responses[Len(passes'[p].responses)].shouldGenerateTypes
       /\ nestingWarned' # nestingWarned =>
             \E p \in PassIds : Handles(p) /\ IsRootEntryEvent(CurrentEvent(p))
       /\ \A collectionKey \in DOMAIN collectionTypes' :
             collectionKey = JSONStringify("") =>
                collectionTypes'[collectionKey] = EmptyObject]_vars

\* A timer pass has handled the add of d.json, which sits directly below
\* the content root: it has warned, and the map holds no collection.
C26_Witness ==
    /\ nestingWarned = << "d.json" >>
    /\ collectionTypes = EmptyObject
    /\ \E p \in DOMAIN passes :
          /\ Running(p)
          /\ passes[p].kind = "timer"
          /\ passes[p].idx >= 1
          /\ LastHandled(p).entry = RootData
          /\ ~ShouldGenerate(passes[p].responses)

\* ----------------------------------------------------- build:post, scripts
\* The client chunks that hold at least one of the script module ids.
ClientChunksHolding(ids) ==
    {clientChunk \in Range(Flatten(clientOutputs)) :
        /\ clientChunk.type = "chunk"
        /\ Range(clientChunk.modules) \cap ids # {}}

\* A file name with the asset prefix when one is configured, else with the
\* base path.
Prefixed(fileName) ==
    IF settings.assetsPrefix # ""
    THEN RemoveTrailingForwardSlash(settings.assetsPrefix) \o "/" \o fileName
    ELSE PrependForwardSlash(RemoveTrailingForwardSlash(settings.base) \o "/" \o fileName)

\* Exactly one script placeholder of chunk c has been replaced, by one
\* descriptor for each file of the client chunks that hold an accumulated
\* script id.
ScriptsReplacedOnce(c) ==
    \E i \in 1..Len(outputs[c].code) :
       LET array == mutated[c][1][i]
           files == {clientChunk.fileName :
                        clientChunk \in ClientChunksHolding(Range(entryScripts))}
       IN  /\ Replaced(c, ScriptsToken) = {i}
           /\ array.kind = "scripts"
           /\ NoDuplicates(array.value)
           /\ Range(array.value) = {Prefixed(fileName) : fileName \in files}

\* C27 as stated: when a chunk with the script placeholder has been handed
\* to mutate with a non-empty script accumulator, one placeholder has been
\* replaced by one descriptor per client chunk file that holds an accumulated
\* script id, and every accumulated script id is held by some client chunk
\* whose file is among the descriptors.
C27_ScriptsResolvedToClientFiles ==
    (/\ post.pc = "mutated"
     /\ Includes(outputs[post.chunk].code, ScriptsToken)
     /\ entryScripts # << >>) =>
       /\ ScriptsReplacedOnce(post.chunk)
       /\ \A id \in Range(entryScripts) :
             \E clientChunk \in ClientChunksHolding({id}) :
                \E i \in Replaced(post.chunk, ScriptsToken) :
                   Prefixed(clientChunk.fileName)
                      \in Range(mutated[post.chunk][1][i].value)

\* C27 amended: as above, but an accumulated script id that no client chunk
\* holds adds no descriptor, so that the array can be empty.
C27_ScriptsOfClientChunksReplaced ==
    (/\ post.pc = "mutated"
     /\ Includes(outputs[post.chunk].code, ScriptsToken)
     /\ entryScripts # << >>) =>
       /\ ScriptsReplacedOnce(post.chunk)
       /\ \A id \in Range(entryScripts) :
             \A clientChunk \in ClientChunksHolding({id}) :
                \E i \in Replaced(post.chunk, ScriptsToken) :
                   Prefixed(clientChunk.fileName)
                      \in Range(mutated[post.chunk][1][i].value)

\* Scripts s.ts and t.ts are accumulated, held by client chunks of two files
\* of which one is emitted in two outputs: the asset prefix is configured and
\* the placeholder has been replaced by the two prefixed file names.
C27_Witness ==
    /\ post.pc = "mutated"
    /\ entryScripts = << "s.ts", "t.ts" >>
    /\ settings.assetsPrefix # ""
    /\ \E i \in 1..Len(mutated[post.chunk][1]) :
          mutated[post.chunk][1][i] =
             Token("scripts", << "https://cdn/hoisted.1.js", "https://cdn/hoisted.2.js" >>)

\* ------------------------------------------- change of an untracked entry
\* A change event for a content or data path the map holds no entry for.
IsUntrackedChange(event) ==
    /\ event.name = "change"
    /\ GetEntryType(event.entry) \in {"content", "data"}
    /\ \/ GetEntryCollectionName(event.entry) = << >>
       \/ ~HasEntry(collectionTypes, CollectionKeyOf(event), EntryKeyOf(event))

\* The collection keys of a map, each with its entry keys.
KeysOf(types) == [collectionKey \in DOMAIN types |-> DOMAIN types[collectionKey]]

\* C28: handling a change event for a content or data path that is not
\* tracked leaves the collection keys and the entry keys of the map as they
\* were and is answered with "no regeneration required".
C28_ChangeNeverCreates ==
    [][\A p \in PassIds :
          (Handles(p) /\ IsUntrackedChange(CurrentEvent(p))) =>
             /\ KeysOf(collectionTypes') = KeysOf(collectionTypes)
             /\ ~passes'[p].responses[Len(passes'[p].responses)].shouldGenerateTypes]_vars

\* A pass has handled the change of blog/b.json, for which the existing
\* collection "blog" holds no entry, and was answered "no regeneration".
C28_Witness ==
    \E p \in DOMAIN passes :
       /\ Running(p)
       /\ passes[p].idx >= 1
       /\ LastHandled(p).name = "change"
       /\ LastHandled(p).entry = PostB
       /\ JSONStringify("blog") \in DOMAIN collectionTypes
       /\ ~HasEntry(collectionTypes, CollectionKeyOf(LastHandled(p)),
                    EntryKeyOf(LastHandled(p)))
       /\ ~passes[p].responses[Len(passes[p].responses)].shouldGenerateTypes
====
